---- MODULE Spec2Model ----
(***************************************************************************)
(* A model of the go-server repository: the browse handlers of its four   *)
(* file-serving programs, their metadata cache, the cache lock and the    *)
(* periodic sweep.                                                        *)
(*                                                                         *)
(*   "server"   src/server/go-server.go     handleBrowse, unlocked map     *)
(*   "server3"  src/server3/go-server3.go   handleBrowse, RWMutex, sweep   *)
(*   "server4"  src/server4/go-server4.go   fileHandler (lines 1-250)      *)
(*   "server4b" src/server4/go-server4.go   handleBrowse (lines 252-485)   *)
(*                                                                         *)
(* A Go string is a sequence of one-character strings, so that prefix      *)
(* tests and path cleaning are computed character by character as the      *)
(* library computes them.                                                  *)
(***************************************************************************)
EXTENDS Integers, Sequences, FiniteSets, TLC

(***************************************************************************)
(* Bounds of the model.                                                    *)
(***************************************************************************)
\* Number of request goroutines in flight at once.
NumProcs == 2
\* The clock runs from 0 to MaxTime ticks; in the run with requests in
\* flight at once, to MaxBurstTime ticks.
MaxTime == 2
MaxBurstTime == 1
\* Versions a file on disk goes through: 1..MaxVersion.
MaxVersion == 2

\* const cacheTTL (server3), flag "cache" (server4), in clock ticks.
cacheTTL == 1

Variants == {"server", "server3", "server4", "server4b"}
Procs == 1..NumProcs

(***************************************************************************)
(* strings and path/filepath                                               *)
(***************************************************************************)
Separator == "/"
Dot == <<".">>
DotDot == <<".", ".">>

\* The byte value of the characters the model's names are written with.
CharCode(c) ==
    CASE c = "-" -> 45 [] c = "." -> 46 [] c = "/" -> 47 [] c = "D" -> 68
      [] c = "Z" -> 90 [] c = "a" -> 97 [] c = "b" -> 98 [] c = "d" -> 100
      [] c = "e" -> 101 [] c = "f" -> 102 [] c = "j" -> 106 [] c = "k" -> 107
      [] c = "s" -> 115 [] c = "t" -> 116 [] c = "x" -> 120

\* a < b on Go strings: byte-wise lexicographic order.
RECURSIVE StringLess(_, _)
StringLess(a, b) ==
    IF b = <<>> THEN FALSE
    ELSE IF a = <<>> THEN TRUE
    ELSE IF Head(a) # Head(b) THEN CharCode(Head(a)) < CharCode(Head(b))
    ELSE StringLess(Tail(a), Tail(b))

HasPrefix(s, prefix) ==
    Len(s) >= Len(prefix) /\ SubSeq(s, 1, Len(prefix)) = prefix

HasSuffix(s, suffix) ==
    Len(s) >= Len(suffix) /\ SubSeq(s, Len(s) - Len(suffix) + 1, Len(s)) = suffix

\* The pieces of s between separators, empty pieces included.
RECURSIVE SplitAcc(_, _, _)
SplitAcc(s, cur, acc) ==
    IF s = <<>> THEN Append(acc, cur)
    ELSE IF Head(s) = Separator THEN SplitAcc(Tail(s), <<>>, Append(acc, cur))
    ELSE SplitAcc(Tail(s), Append(cur, Head(s)), acc)

\* The non-empty path elements of s.
Elements(s) == SelectSeq(SplitAcc(s, <<>>, <<>>), LAMBDA e : e # <<>>)

\* The element loop of filepath.Clean: "." is dropped, ".." removes the
\* element before it, is kept at the front of a relative path and is
\* dropped at the front of a rooted one.
RECURSIVE CleanElems(_, _, _)
CleanElems(elems, rooted, out) ==
    IF elems = <<>> THEN out
    ELSE LET e == Head(elems)
             rest == Tail(elems)
         IN  IF e = Dot THEN CleanElems(rest, rooted, out)
             ELSE IF e = DotDot
                  THEN IF out # <<>> /\ out[Len(out)] # DotDot
                       THEN CleanElems(rest, rooted, SubSeq(out, 1, Len(out) - 1))
                       ELSE IF ~rooted
                            THEN CleanElems(rest, rooted, Append(out, DotDot))
                            ELSE CleanElems(rest, rooted, out)
                  ELSE CleanElems(rest, rooted, Append(out, e))

\* elems joined by separators.
RECURSIVE JoinElems(_)
JoinElems(elems) ==
    IF elems = <<>> THEN <<>>
    ELSE IF Len(elems) = 1 THEN elems[1]
    ELSE elems[1] \o <<Separator>> \o JoinElems(Tail(elems))

\* filepath.Clean
Clean(path) ==
    IF path = <<>> THEN Dot
    ELSE LET rooted == path[1] = Separator
             out == CleanElems(Elements(path), rooted, <<>>)
         IN  IF out = <<>>
             THEN (IF rooted THEN <<Separator>> ELSE Dot)
             ELSE (IF rooted THEN <<Separator>> ELSE <<>>) \o JoinElems(out)

\* filepath.Join of two elements
Join(a, b) ==
    IF a # <<>> THEN Clean(a \o <<Separator>> \o b)
    ELSE IF b # <<>> THEN Clean(b)
    ELSE <<>>

\* The index of the last separator of s, 0 when there is none.
RECURSIVE LastIndex(_, _)
LastIndex(s, c) ==
    IF s = <<>> THEN 0
    ELSE IF s[Len(s)] = c THEN Len(s)
    ELSE LastIndex(SubSeq(s, 1, Len(s) - 1), c)

\* filepath.Dir
Dir(path) == Clean(SubSeq(path, 1, LastIndex(path, Separator)))

\* filepath.Base of a cleaned path: its last element.
Base(path) ==
    LET elems == Elements(path)
    IN  IF elems = <<>> THEN (IF path = <<>> THEN Dot ELSE <<Separator>>)
        ELSE elems[Len(elems)]

\* filepath.Ext: the suffix of the last element from its last dot on.
Ext(path) ==
    LET name == Base(path)
        i == LastIndex(name, ".")
    IN  IF i = 0 \/ name = <<Separator>> THEN <<>> ELSE SubSeq(name, i, Len(name))

\* The number of leading elements two element lists share.
RECURSIVE CommonLen(_, _)
CommonLen(a, b) ==
    IF a = <<>> \/ b = <<>> \/ Head(a) # Head(b) THEN 0
    ELSE 1 + CommonLen(Tail(a), Tail(b))

\* filepath.Rel: [err, rel]
Rel(basepath, targpath) ==
    LET base0 == Clean(basepath)
        targ == Clean(targpath)
        base == IF base0 = Dot THEN <<>> ELSE base0
        baseSlashed == Len(base) > 0 /\ base[1] = Separator
        targSlashed == Len(targ) > 0 /\ targ[1] = Separator
        bs == Elements(base)
        ts == Elements(targ)
        k == CommonLen(bs, ts)
        ups == [i \in 1..(Len(bs) - k) |-> DotDot]
        rest == SubSeq(ts, k + 1, Len(ts))
    IN  IF targ = base0 THEN [err |-> FALSE, rel |-> Dot]
        ELSE IF baseSlashed # targSlashed THEN [err |-> TRUE, rel |-> <<>>]
        ELSE IF k < Len(bs) /\ bs[k + 1] = DotDot THEN [err |-> TRUE, rel |-> <<>>]
        ELSE [err |-> FALSE, rel |-> JoinElems(ups \o rest)]

\* html.EscapeString and template.HTMLEscapeString: the five special
\* characters are replaced by their entities, every other one is kept.
RECURSIVE EscapeString(_)
EscapeString(s) ==
    IF s = <<>> THEN <<>>
    ELSE LET c == Head(s)
             e == CASE c = "&" -> <<"&", "a", "m", "p", ";">>
                    [] c = "<" -> <<"&", "l", "t", ";">>
                    [] c = ">" -> <<"&", "g", "t", ";">>
                    [] c = "'" -> <<"&", "#", "3", "9", ";">>
                    [] c = "\"" -> <<"&", "#", "3", "4", ";">>
                    [] OTHER -> <<c>>
         IN  e \o EscapeString(Tail(s))

\* isSlashRune of net/http: the separators containsDotDot splits at.
IsSlashRune(c) == c = "/" \/ c = "\\"

\* strings.FieldsFunc(s, isSlashRune): the pieces of s between slashes and
\* backslashes, cur being the piece begun.
RECURSIVE FieldsAcc(_, _, _)
FieldsAcc(s, cur, acc) ==
    IF s = <<>> THEN (IF cur = <<>> THEN acc ELSE Append(acc, cur))
    ELSE IF IsSlashRune(Head(s))
         THEN FieldsAcc(Tail(s), <<>>, IF cur = <<>> THEN acc ELSE Append(acc, cur))
    ELSE FieldsAcc(Tail(s), Append(cur, Head(s)), acc)

\* containsDotDot of net/http, which http.ServeFile applies to r.URL.Path:
\* some field of the path between slashes or backslashes is "..".
ContainsDotDot(s) ==
    \E i \in 1..Len(FieldsAcc(s, <<>>, <<>>)) : FieldsAcc(s, <<>>, <<>>)[i] = DotDot

\* cleanPath of net/http's ServeMux: the path made rooted, path.Clean of it,
\* and the trailing slash of the original put back.
CleanPath(p) ==
    IF p = <<>> THEN <<Separator>>
    ELSE LET rooted == IF p[1] = Separator THEN p ELSE <<Separator>> \o p
             np == Clean(rooted)
         IN  IF rooted[Len(rooted)] = Separator /\ np # <<Separator>>
             THEN np \o <<Separator>>
             ELSE np

\* mime.TypeByExtension on the extensions of the model's files; "" (the
\* empty sequence) for an extension it does not know.
TypeByExtension(ext) ==
    IF ext = <<".", "j", "s">> THEN "text/javascript; charset=utf-8" ELSE ""

(***************************************************************************)
(* encoding/json                                                           *)
(***************************************************************************)
\* A request body is the sequence of its JSON tokens; a string token carries
\* its text and its length in bytes, the quotes not counted.
Tok(t) == [t |-> t]
Str(s, n) == [t |-> "str", s |-> s, n |-> n]

\* The bytes a token takes in the body.
TokenBytes(tok) ==
    IF tok.t = "str" THEN tok.n + 2 ELSE IF tok.t = "null" THEN 4 ELSE 1

RECURSIVE BodyBytes(_)
BodyBytes(toks) ==
    IF toks = <<>> THEN 0 ELSE TokenBytes(Head(toks)) + BodyBytes(Tail(toks))

JsonNull == [k |-> "null"]
JsonString(s) == [k |-> "string", s |-> s]
JsonArray(items) == [k |-> "array", items |-> items]
JsonObject(members) == [k |-> "object", members |-> members]
SyntaxError == [ok |-> FALSE]
Parsed(v, rest) == [ok |-> TRUE, val |-> v, rest |-> rest]

\* The scanner and decoder of encoding/json on the tokens: one value at the
\* front of toks, and the tokens after it. An object's members are kept in
\* the order they are written.
RECURSIVE ParseValue(_)
RECURSIVE ParseMembers(_, _)
RECURSIVE ParseItems(_, _)
ParseValue(toks) ==
    IF toks = <<>> THEN SyntaxError
    ELSE LET tok == Head(toks)
             rest == Tail(toks)
         IN  CASE tok.t = "null" -> Parsed(JsonNull, rest)
               [] tok.t = "str" -> Parsed(JsonString(tok.s), rest)
               [] tok.t = "{" ->
                    IF rest # <<>> /\ Head(rest).t = "}"
                    THEN Parsed(JsonObject(<<>>), Tail(rest))
                    ELSE ParseMembers(rest, <<>>)
               [] tok.t = "[" ->
                    IF rest # <<>> /\ Head(rest).t = "]"
                    THEN Parsed(JsonArray(<<>>), Tail(rest))
                    ELSE ParseItems(rest, <<>>)
               [] OTHER -> SyntaxError

\* key : value, then "," and more or "}".
ParseMembers(toks, acc) ==
    IF Len(toks) < 2 \/ toks[1].t # "str" \/ toks[2].t # ":" THEN SyntaxError
    ELSE LET v == ParseValue(SubSeq(toks, 3, Len(toks)))
         IN  IF ~v.ok \/ v.rest = <<>> THEN SyntaxError
             ELSE LET members == Append(acc, [key |-> toks[1].s, val |-> v.val])
                  IN  CASE Head(v.rest).t = "}" ->
                             Parsed(JsonObject(members), Tail(v.rest))
                        [] Head(v.rest).t = "," -> ParseMembers(Tail(v.rest), members)
                        [] OTHER -> SyntaxError

\* value, then "," and more or "]".
ParseItems(toks, acc) ==
    LET v == ParseValue(toks)
    IN  IF ~v.ok \/ v.rest = <<>> THEN SyntaxError
        ELSE LET items == Append(acc, v.val)
             IN  CASE Head(v.rest).t = "]" -> Parsed(JsonArray(items), Tail(v.rest))
                   [] Head(v.rest).t = "," -> ParseItems(Tail(v.rest), items)
                   [] OTHER -> SyntaxError

\* http.MaxBytesReader(w, r.Body, 1024*1024)
MaxBodyBytes == 1048576

\* What Decoder.Decode reads of the body: an error for an empty or
\* malformed body, and, behind a MaxBytesReader, for a first value that does
\* not end within the limit. An object or an array ends with its closing
\* bracket. A string or a literal at the top ends only with the byte after
\* it: behind a MaxBytesReader one that ends exactly at the limit is an
\* error when more bytes follow, for the read of the next byte fails, and
\* is read when the body ends there. What follows the first value is not
\* read any further.
ReadValue(body, capped) ==
    LET v == ParseValue(body)
        n == BodyBytes(body) - BodyBytes(v.rest)
    IN  IF ~v.ok THEN SyntaxError
        ELSE IF capped /\ n > MaxBodyBytes THEN SyntaxError
        ELSE IF /\ capped
                /\ n = MaxBodyBytes
                /\ v.val.k \in {"string", "null"}
                /\ v.rest # <<>>
             THEN SyntaxError
        ELSE v

\* strings.EqualFold on the letters of the model's keys: the key in lower
\* case.
ToLower(key) == [i \in 1..Len(key) |-> IF key[i] = "D" THEN "d" ELSE key[i]]

\* The members of a map written by json.Encoder: the last of several
\* members with one key, in ascending order of key.
RECURSIVE SortMembers(_)
SortMembers(S) ==
    IF S = {} THEN <<>>
    ELSE LET m == CHOOSE x \in S : \A y \in S \ {x} : StringLess(x.key, y.key)
         IN  <<m>> \o SortMembers(S \ {m})

\* A JSON value decoded into interface{} and encoded again: an object
\* becomes a map[string]interface{}.
RECURSIVE Generic(_)
Generic(v) ==
    CASE v.k = "object" ->
           LET ms == v.members
               last == {i \in 1..Len(ms) :
                            \A j \in (i + 1)..Len(ms) : ms[j].key # ms[i].key}
           IN  JsonObject(SortMembers({[key |-> ms[i].key, val |-> Generic(ms[i].val)] :
                                           i \in last}))
      [] v.k = "array" -> JsonArray([i \in 1..Len(v.items) |-> Generic(v.items[i])])
      [] OTHER -> v

\* Decode into map[string]interface{}: an object fills the map, null leaves
\* it nil, any other value is an UnmarshalTypeError.
DecodeMap(v) ==
    CASE v.k = "object" -> [err |-> FALSE, val |-> Generic(v)]
      [] v.k = "null" -> [err |-> FALSE, val |-> JsonNull]
      [] OTHER -> [err |-> TRUE]

DataKey == <<"d", "a", "t", "a">>

\* Decode into struct{ Data string `json:"data"` }: of an object, the
\* members whose key is "data" in any case set Data when they are strings,
\* leave it when null and are an UnmarshalTypeError otherwise; the other
\* members are dropped; null leaves the struct as it is.
DecodeData(v) ==
    CASE v.k = "object" ->
           LET ms == v.members
               hits == {i \in 1..Len(ms) : ToLower(ms[i].key) = DataKey}
               strs == {i \in hits : ms[i].val.k = "string"}
               last == CHOOSE i \in strs : \A j \in strs : j <= i
           IN  [err |-> \E i \in hits : ms[i].val.k \notin {"string", "null"},
                Data |-> IF strs = {} THEN <<>> ELSE ms[last].val.s]
      [] v.k = "null" -> [err |-> FALSE, Data |-> <<>>]
      [] OTHER -> [err |-> TRUE, Data |-> <<>>]

(***************************************************************************)
(* The disk                                                                *)
(***************************************************************************)
\* The directory served: baseDirectory (server, server3, server4b), *baseDir
\* (server4).
baseDirectory == <<"/", "b">>

PathA == <<"/", "b", "/", "a">>
PathF == <<"/", "b", "/", "f">>
PathJs == <<"/", "b", "/", ".", "j", "s">>
PathDotDotD == <<"/", "b", "/", ".", ".", "d">>
PathSibling == <<"/", "b", "x">>
PathSiblingFile == <<"/", "b", "x", "/", "k">>
PathOutside == <<"/", "e">>
PathPost == <<"/", "b", "/", "p", "o", "s", "t">>
PathApi == <<"/", "b", "/", "a", "p", "i">>

NoFile == [kind |-> "none"]
RegularFile(m, s) == [kind |-> "file", mtime |-> m, size |-> s]
Directory(m) == [kind |-> "dir", mtime |-> m]

\* The paths whose node changes while the server runs, and what they can be.
MutablePaths == {PathF}
\* Version v of a file has modification time v and size v: a rewrite
\* changes both.
Nodes ==
    {NoFile}
      \cup {RegularFile(v, v) : v \in 1..MaxVersion}
      \cup {Directory(1)}

\* The rest of the disk stays as it is: the served directory with a plain
\* file and two dotted files, a sibling directory whose name has the served
\* directory's name as a string prefix, and a file outside both; no request
\* resolves to the last two.
FixedNode(path) ==
    CASE path = baseDirectory -> Directory(1)
      [] path = PathA -> RegularFile(1, 1)
      [] path = PathJs -> RegularFile(1, 2)
      [] path = PathDotDotD -> RegularFile(1, 1)
      [] path = PathSibling -> Directory(1)
      [] path = PathSiblingFile -> RegularFile(1, 1)
      [] path = PathOutside -> RegularFile(1, 1)
      [] OTHER -> NoFile

AllPaths ==
    MutablePaths \cup {baseDirectory, PathA, PathJs, PathDotDotD, PathSibling,
                       PathSiblingFile, PathOutside, PathPost, PathApi}

\* The truth the path check is measured against: path is the served
\* directory or lies below it.
UnderRoot(path) ==
    path = baseDirectory \/ HasPrefix(path, baseDirectory \o <<Separator>>)

\* The request targets the clients send. net/http hands a target to a
\* handler, as r.URL.Path, only when it begins with "/" and is its own
\* cleanPath; TargetClimbing and TargetRelative are the traversal attempts.
UrlRoot == <<"/">>
UrlF == <<"/", "f">>
UrlJs == <<"/", ".", "j", "s">>
UrlDotDotD == <<"/", ".", ".", "d">>
TargetClimbing == <<"/", ".", ".", "/", "b", "x">>
TargetRelative == <<".", ".", "/", "b", "x">>
UrlPost == <<"/", "p", "o", "s", "t">>
UrlApi == <<"/", "a", "p", "i">>

\* A file that is rewritten: its versions.
Rewrites == {RegularFile(v, v) : v \in 1..MaxVersion}

\* The inputs of one run: the targets its clients ask for, how many requests
\* they have in flight at once, whether the operator interrupts the server,
\* what the mutable path holds in the course of the run and how many ticks
\* the run lasts. The disk
\* changes at any moment of every run. Requests for different paths meet
\* only at the lock and the sweep, so the concurrent run asks for one path,
\* a file that is rewritten while the requests are in flight; the runs with
\* one request at a time also remove the path, create it and replace it by
\* a directory.
Scenarios ==
    {[urls |-> {UrlF}, conns |-> NumProcs, quit |-> FALSE, nodes |-> Rewrites,
      ticks |-> MaxBurstTime],
     [urls |-> {UrlRoot, UrlJs}, conns |-> 1, quit |-> TRUE, nodes |-> Nodes,
      ticks |-> MaxTime],
     [urls |-> {UrlDotDotD, TargetRelative}, conns |-> 1, quit |-> TRUE, nodes |-> Nodes,
      ticks |-> MaxTime],
     [urls |-> {TargetClimbing, UrlF}, conns |-> 1, quit |-> TRUE, nodes |-> Nodes,
      ticks |-> MaxTime],
     [urls |-> {UrlPost, UrlApi}, conns |-> 1, quit |-> TRUE, nodes |-> Nodes,
      ticks |-> MaxTime]}

\* The methods and the bodies the clients send to the echo endpoint: the
\* spec's example, an object with another key, with a second member, with
\* the key in upper case, with a string of one byte over the limit; the
\* empty object, null, an array, an example cut short and no body at all;
\* a string that ends exactly at the limit, alone and with more after it,
\* and an object that ends exactly at the limit with more after it.
Methods == {"POST", "GET"}
KeyK == <<"k">>
TextX == <<"x">>
Bodies ==
    {<<Tok("{"), Str(DataKey, 4), Tok(":"), Str(TextX, 1), Tok("}")>>,
     <<Tok("{"), Str(KeyK, 1), Tok(":"), Str(TextX, 1), Tok("}")>>,
     <<Tok("{"), Str(DataKey, 4), Tok(":"), Str(TextX, 1), Tok(","),
       Str(KeyK, 1), Tok(":"), Str(TextX, 1), Tok("}")>>,
     <<Tok("{"), Str(<<"D", "a", "t", "a">>, 4), Tok(":"), Str(TextX, 1), Tok("}")>>,
     <<Tok("{"), Str(DataKey, 4), Tok(":"), Str(TextX, MaxBodyBytes - 10), Tok("}")>>,
     <<Tok("{"), Tok("}")>>,
     <<Tok("null")>>,
     <<Tok("["), Str(TextX, 1), Tok("]")>>,
     <<Tok("{"), Str(DataKey, 4), Tok(":"), Str(TextX, 1)>>,
     <<>>,
     <<Str(TextX, MaxBodyBytes - 2)>>,
     <<Str(TextX, MaxBodyBytes - 2), Tok("null")>>,
     <<Tok("{"), Str(DataKey, 4), Tok(":"), Str(TextX, MaxBodyBytes - 11), Tok("}"),
       Tok("null")>>}

(***************************************************************************)
(* State                                                                   *)
(***************************************************************************)
VARIABLES
    variant,     \* the program that runs
    asked,       \* the paths this run's clients ask for
    conns,       \* how many requests they have in flight at once
    now,         \* time.Now(), in ticks
    disk,        \* the node at each mutable path
    fileCache,   \* the map fileCache (cache in server4): path -> entry
    writer,      \* who holds cacheMutex (cacheMu) exclusively
    readers,     \* who holds cacheMutex shared (RLock)
    sweeper,     \* where the sweep goroutine is
    crashed,     \* the runtime has stopped the process (fatal error)
    mainpc,      \* where main is: serving, shutting down, or returned
    pc,          \* where each request goroutine is in its handler
    url,         \* r.URL.Path of each request
    cachedInfo,  \* the handler's local cachedInfo
    info,        \* the handler's local info
    files,       \* the handler's local files, the result of os.ReadDir
    file,        \* the file http.ServeFile holds open: its size, its content
    resp,        \* the response each request has written
    req,         \* r.Method and r.Body of each request to the echo endpoint
    obs,         \* what each request has done so far (history, not program state)
    checked      \* the path the traversal check was applied to, and its verdict

vars == <<variant, asked, conns, now, disk, fileCache, writer, readers, sweeper, crashed, mainpc,
          pc, url, cachedInfo, info, files, file, resp, req, obs, checked>>

\* Goroutines are numbered: the requests 1..NumProcs, then the sweep; 0 is
\* the unlocked mutex.
NoHolder == 0
Sweeper == NumProcs + 1
NoEntry == [absent |-> TRUE]
NoInfo == [absent |-> TRUE]
NoFiles == <<>>
NoCheck == [path |-> <<>>, allowed |-> FALSE]
Closed == [size |-> 0, content |-> 0, linked |-> FALSE]
NoResp == [status |-> 0]
NoUrl == <<"?">>
NoReq == [Method |-> "-"]
NoObs == [statted |-> FALSE, touched |-> FALSE, moved |-> FALSE, cold |-> FALSE,
          hit |-> FALSE, chose |-> "none", fails |-> 0, wrote |-> "none"]

\* What is on the disk at path.
Node(path) == IF path \in MutablePaths THEN disk[path] ELSE FixedNode(path)

\* os.Stat: an error for a missing path, else the FileInfo.
Stat(path) ==
    LET n == Node(path)
    IN  IF n.kind = "none" THEN [err |-> TRUE]
        ELSE [err |-> FALSE, IsDir |-> n.kind = "dir", ModTime |-> n.mtime,
              Size |-> IF n.kind = "file" THEN n.size ELSE 0]

\* The less function handed to sort.Slice: by name (server3, server4b), or
\* directories first and then by name (server4's dirList).
EntryLess(a, b, dirFirst) ==
    IF dirFirst /\ a.IsDir # b.IsDir THEN a.IsDir ELSE StringLess(a.Name, b.Name)

RECURSIVE SortEntries(_, _)
SortEntries(S, dirFirst) ==
    IF S = {} THEN <<>>
    ELSE LET m == CHOOSE x \in S : \A y \in S \ {x} : EntryLess(x, y, dirFirst)
         IN  <<m>> \o SortEntries(S \ {m}, dirFirst)

\* sort.Slice(files, less)
SortSlice(fs, dirFirst) ==
    SortEntries({fs[i] : i \in 1..Len(fs)}, dirFirst)

\* os.ReadDir: an error unless path is a directory, else its entries sorted
\* by file name, each with the name and the type the directory held when it
\* was read.
ReadDir(path) ==
    IF Node(path).kind # "dir" THEN [err |-> TRUE, files |-> <<>>]
    ELSE [err |-> FALSE,
          files |-> SortEntries(
              {[Name |-> Base(q), IsDir |-> Node(q).kind = "dir"] :
                  q \in {c \in AllPaths : c # path /\ Dir(c) = path
                                            /\ Node(c).kind # "none"}},
              FALSE)]

\* f.Info() of an entry f of the directory dir: the lstat of the entry's
\* path, made when Info is called.
EntryInfo(dir, f) == Stat(Join(dir, f.Name))

\* time.Since(t)
TimeSince(t) == now - t

\* The request path after filepath.Clean, and the path on disk it names.
reqPath(p) == Clean(url[p])
fsPath(p) == Join(baseDirectory, reqPath(p))

(***************************************************************************)
(* The Path Resolver check                                                 *)
(***************************************************************************)
\* The traversal check of handleBrowse: strings.HasPrefix(fsPath, baseDirectory).
PrefixCheck(path) == HasPrefix(path, baseDirectory)

\* The traversal check of fileHandler: filepath.Rel gives no error and its
\* result does not start with "..".
RelCheck(path) ==
    LET r == Rel(baseDirectory, path)
    IN  ~(r.err \/ HasPrefix(r.rel, DotDot))

\* Whether the running program's check lets the joined path through.
PathAllowed(path) ==
    IF variant = "server4" THEN RelCheck(path) ELSE PrefixCheck(path)

(***************************************************************************)
(* Responses                                                               *)
(***************************************************************************)
NotFound == [status |-> 404, kind |-> "error"]
BadRequest == [status |-> 400, kind |-> "error"]
MovedPermanently == [status |-> 301, kind |-> "redirect"]

\* What the client gets when the handler panics: net/http recovers the
\* panic and closes the connection, and what the handler had written, less
\* than the response buffer holds, is never sent.
Panic == [status |-> 0, kind |-> "panic"]
NoParent == <<"-">>

\* The ".." link written for every listing, that of "/" too.
ParentLinkAlways(rp) ==
    LET parent == Dir(rp)
    IN  IF variant = "server4"
        THEN EscapeString(IF parent = Dot THEN <<Separator>> ELSE parent)
        ELSE EscapeString(IF HasSuffix(parent, <<Separator>>) THEN parent
                          ELSE parent \o <<Separator>>)

\* The ".." link of a listing: none for "/", else filepath.Dir(reqPath),
\* which handleBrowse ends with a slash and dirList turns from "." to "/".
ParentLink(rp) ==
    IF rp = <<Separator>> THEN NoParent
    ELSE LET parent == Dir(rp)
         IN  IF variant = "server4"
             THEN EscapeString(IF parent = Dot THEN <<Separator>> ELSE parent)
             ELSE EscapeString(IF HasSuffix(parent, <<Separator>>) THEN parent
                               ELSE parent \o <<Separator>>)

\* Whether the listing loop skips the entry: server3 and server4's dirList
\* skip names that begin with "."; the other two list every entry.
Hidden(f) == variant \in {"server3", "server4"} /\ HasPrefix(f.Name, Dot)

\* Whether the listing loop calls f.Info() for the size and the time of
\* each entry it shows.
ReadsInfo == variant \in {"server3", "server4"}

\* The <li> line of the entry f of the directory dir: the slash from the
\* type os.ReadDir gave, the size and the time from f.Info().
EntryLine(rp, dir, f) ==
    LET link == Join(rp, f.Name) \o (IF f.IsDir THEN <<Separator>> ELSE <<>>)
        slashed == f.Name \o (IF f.IsDir THEN <<Separator>> ELSE <<>>)
        st == EntryInfo(dir, f)
    IN  CASE variant = "server3" ->
               [href |-> EscapeString(link), text |-> EscapeString(slashed),
                size |-> st.Size, modTime |-> st.ModTime]
          [] variant = "server4" ->
               [href |-> EscapeString(link), text |-> EscapeString(f.Name),
                size |-> st.Size, modTime |-> st.ModTime]
          [] OTHER ->
               [href |-> EscapeString(link), text |-> EscapeString(slashed)]

\* The files as the handler sorts them: handleBrowse of server leaves them
\* as os.ReadDir gave them.
Sorted(fs) ==
    CASE variant = "server" -> fs
      [] variant = "server4" -> SortSlice(fs, TRUE)
      [] OTHER -> SortSlice(fs, FALSE)

\* A failed os.ReadDir answered like a missing path.
ReadDirErrorAs404 == [status |-> 404, kind |-> "error"]

\* The answer to a failed os.ReadDir: 403 in dirList, 500 in handleBrowse.
ReadDirError == [status |-> IF variant = "server4" THEN 403 ELSE 500, kind |-> "error"]

\* The page written for reqPath rp from the sorted entries fs of the
\* directory dir: the parent link and one line per entry not skipped. Where
\* the loop calls f.Info(), an entry that is gone by then gives a nil info
\* and info.Size() panics.
Listing(rp, dir, fs) ==
    LET shown == SelectSeq(fs, LAMBDA f : ~Hidden(f))
    IN  IF ReadsInfo /\ \E i \in 1..Len(shown) : EntryInfo(dir, shown[i]).err
        THEN Panic
        ELSE [status |-> 200, kind |-> "listing",
              title |-> EscapeString(rp),
              parent |-> ParentLink(rp),
              entries |-> [i \in 1..Len(shown) |-> EntryLine(rp, dir, shown[i])]]

\* The Content-Type header the handler sets before http.ServeFile: by
\* extension, else application/octet-stream; fileHandler sets none.
PresetContentType(name) ==
    IF variant = "server4" THEN ""
    ELSE IF TypeByExtension(Ext(name)) = "" THEN "application/octet-stream"
    ELSE TypeByExtension(Ext(name))

IndexPage == <<"/", "i", "n", "d", "e", "x", ".", "h", "t", "m", "l">>

\* http.ServeFile(w, r, name) of net/http for a request without conditional
\* or range headers: 400 when r.URL.Path has a ".." element, a redirect when
\* it ends in "/index.html", 404 when name cannot be opened; a directory is
\* redirected to its slash-ended URL or answered with its index.html (a
\* file's content, a directory's listing) or net/http's own listing of
\* every entry; a file is sent with the size it has now and the
\* Content-Type the handler set (else by extension, else detected from the
\* content, which the model identifies by its size). This is the answer on
\* a disk that stays as it is during the call; the action ServeFile takes
\* the size from it and DetectContentType reads the content afterwards.
HttpServeFile(u, name, preset) ==
    LET n == Node(name)
        index == name \o IndexPage
        served == IF n.kind = "dir" /\ Node(index).kind # "none" THEN index ELSE name
        d == Node(served)
    IN  IF ContainsDotDot(u) THEN BadRequest
        ELSE IF HasSuffix(u, IndexPage) THEN MovedPermanently
        ELSE IF n.kind = "none" THEN NotFound
        ELSE IF n.kind = "dir" /\ (u = <<>> \/ u[Len(u)] # Separator)
             THEN MovedPermanently
        ELSE IF d.kind = "dir"
             THEN [status |-> 200, kind |-> "httpdir",
                   names |-> [i \in 1..Len(ReadDir(served).files) |->
                                  ReadDir(served).files[i].Name]]
        ELSE [status |-> 200, kind |-> "file", size |-> d.size,
              ctype |-> IF preset # "" THEN [type |-> preset, content |-> 0]
                        ELSE IF TypeByExtension(Ext(served)) # ""
                             THEN [type |-> TypeByExtension(Ext(served)), content |-> 0]
                        ELSE [type |-> "detected", content |-> d.size]]

(***************************************************************************)
(* The cache                                                               *)
(***************************************************************************)
\* The entry a handler stores for stat result st at time t: server3's
\* cacheEntry{ModTime, IsDir, LastAccess}, server4's cacheEntry{info, modTime,
\* lastAccess}, and the struct{ModTime, IsDir} of the other two.
MakeEntry(st, t) ==
    CASE variant = "server3" ->
           [ModTime |-> st.ModTime, IsDir |-> st.IsDir, LastAccess |-> t]
      [] variant = "server4" ->
           [info |-> st, modTime |-> st.ModTime, lastAccess |-> t]
      [] OTHER -> [ModTime |-> st.ModTime, IsDir |-> st.IsDir]

\* What handleBrowse reads of the entry it copied into cachedInfo.
Cached(e) == IF e = NoEntry THEN NoEntry ELSE [ModTime |-> e.ModTime, IsDir |-> e.IsDir]

EntryLastAccess(e) == IF variant = "server4" THEN e.lastAccess ELSE e.LastAccess
EntryModTime(e) == IF variant = "server4" THEN e.modTime ELSE e.ModTime
EntryIsDir(e) == IF variant = "server4" THEN e.info.IsDir ELSE e.IsDir

\* The sweep's test: time.Since(entry.LastAccess) > cacheTTL.
Expired(e) == TimeSince(EntryLastAccess(e)) > cacheTTL

\* getFromCache's test: time.Since(entry.lastAccess) < *cacheTTL.
Fresh(e) == TimeSince(EntryLastAccess(e)) < cacheTTL

\* The process runs: the runtime has not stopped it and main has not
\* returned.
Alive == ~crashed /\ mainpc # "exited"

\* The programs that run a sweep goroutine; they are also the ones that
\* read the clock.
HasSweep == variant \in {"server3", "server4"}

(***************************************************************************)
(* Initial state                                                           *)
(***************************************************************************)
Init ==
    /\ variant \in Variants
    /\ \E sc \in Scenarios :
           /\ asked = sc.urls
           /\ conns = sc.conns
           /\ disk \in [MutablePaths -> sc.nodes]
    /\ now = 0
    /\ fileCache = [path \in AllPaths |-> NoEntry]
    /\ writer = NoHolder
    /\ readers = {}
    /\ sweeper = "wait"
    /\ crashed = FALSE
    /\ mainpc = "serve"
    /\ pc = [p \in Procs |-> "idle"]
    /\ url = [p \in Procs |-> NoUrl]
    /\ cachedInfo = [p \in Procs |-> NoEntry]
    /\ info = [p \in Procs |-> NoInfo]
    /\ files = [p \in Procs |-> NoFiles]
    /\ file = [p \in Procs |-> Closed]
    /\ resp = [p \in Procs |-> NoResp]
    /\ req = [p \in Procs |-> NoReq]
    /\ obs = [p \in Procs |-> NoObs]
    /\ checked = NoCheck

(***************************************************************************)
(* The handlers, one action per step between two accesses to shared state  *)
(***************************************************************************)
\* The handler's first step after the traversal check.
FirstStep ==
    CASE variant = "server" -> "lookup0"
      [] variant = "server4" -> "getlock"
      [] OTHER -> "rlock"

\* Where the handler goes once it has the metadata st: the File Responder
\* or the Directory Renderer.
Branch(isDir) == IF isDir THEN "readdir" ELSE "serve"
Chosen(step) ==
    CASE step = "serve" -> "file" [] step = "readdir" -> "dir" [] OTHER -> "none"

\* The pattern the mux routes to the echo handler: "/api" to apiHandler,
\* "/post" to the handlePost of the other programs; every other path goes
\* to the browse handler.
EchoPath == IF variant = "server4" THEN UrlApi ELSE UrlPost

\* What net/http does with a request target: 400 for one that does not
\* begin with "/", which it cannot parse; a redirect to the cleaned path
\* for one that is not its own cleanPath; else the handler of the longest
\* pattern that matches.
Route(target) ==
    IF target = <<>> \/ target[1] # Separator THEN "badrequest"
    ELSE IF CleanPath(target) # target THEN "redirect"
    ELSE IF target = EchoPath THEN "echo"
    ELSE "browse"

\* A request that net/http answers itself; no handler is called.
ServeMux(p) ==
    \E u \in {t \in asked : Route(t) \in {"badrequest", "redirect"}} :
        /\ Alive
        /\ mainpc = "serve"
        /\ pc[p] = "idle"
        /\ p <= conns
        /\ \A q \in 1..(p - 1) : pc[q] # "idle"
        /\ url' = [url EXCEPT ![p] = u]
        /\ resp' = [resp EXCEPT ![p] =
                       IF Route(u) = "badrequest" THEN BadRequest ELSE MovedPermanently]
        /\ pc' = [pc EXCEPT ![p] = "done"]
        /\ UNCHANGED <<checked, file, files, mainpc, req, variant, asked, conns, now, disk, fileCache, writer,
                       readers, sweeper, crashed, cachedInfo, info, obs>>

\* A request arrives at the browse handler: filepath.Clean, filepath.Join
\* and the traversal check, which answers 404 at once. The server hands it to the first goroutine
\* that is free.
Request(p) ==
    \E u \in {t \in asked : Route(t) = "browse"} :
        LET path == Join(baseDirectory, Clean(u))
        IN  /\ Alive
            /\ mainpc = "serve"
            /\ pc[p] = "idle"
            /\ p <= conns
            /\ \A q \in 1..(p - 1) : pc[q] # "idle"
            /\ url' = [url EXCEPT ![p] = u]
            /\ obs' = [obs EXCEPT ![p] = [NoObs EXCEPT !.cold = fileCache[path] = NoEntry]]
            /\ IF PathAllowed(path)
               THEN /\ pc' = [pc EXCEPT ![p] = FirstStep]
                    /\ resp' = resp
               ELSE /\ pc' = [pc EXCEPT ![p] = "done"]
                    /\ resp' = [resp EXCEPT ![p] = NotFound]
            /\ UNCHANGED <<checked, file, files, mainpc, req, variant, asked, conns, now, disk, fileCache, writer, readers, sweeper,
                           crashed, cachedInfo, info>>

\* cacheMutex.RLock()
RLock(p) ==
    /\ Alive
    /\ pc[p] = "rlock"
    /\ writer = NoHolder
    /\ readers' = readers \cup {p}
    /\ pc' = [pc EXCEPT ![p] = "lookup"]
    /\ obs' = [obs EXCEPT ![p].touched = TRUE]
    /\ UNCHANGED <<checked, file, files, mainpc, req, variant, asked, conns, now, disk, fileCache, writer, sweeper, crashed, url,
                   cachedInfo, info, resp>>

\* Lookup that keeps the read lock: no cacheMutex.RUnlock() before the
\* os.Stat that follows.
LookupHolding(p) ==
    /\ Alive
    /\ pc[p] = "lookup"
    /\ cachedInfo' = [cachedInfo EXCEPT ![p] = Cached(fileCache[fsPath(p)])]
    /\ obs' = [obs EXCEPT ![p].hit = fileCache[fsPath(p)] # NoEntry]
    /\ pc' = [pc EXCEPT ![p] =
                 IF fileCache[fsPath(p)] # NoEntry THEN "restat" ELSE "stat"]
    /\ UNCHANGED <<checked, file, files, mainpc, req, variant, asked, conns, now, disk, fileCache, writer, readers, sweeper,
                   crashed, url, info, resp>>

\* cachedInfo, exists := fileCache[fsPath]; cacheMutex.RUnlock()
Lookup(p) ==
    /\ Alive
    /\ pc[p] = "lookup"
    /\ cachedInfo' = [cachedInfo EXCEPT ![p] = Cached(fileCache[fsPath(p)])]
    /\ obs' = [obs EXCEPT ![p].hit = fileCache[fsPath(p)] # NoEntry]
    /\ readers' = readers \ {p}
    /\ pc' = [pc EXCEPT ![p] =
                 IF fileCache[fsPath(p)] # NoEntry THEN "restat" ELSE "stat"]
    /\ UNCHANGED <<checked, file, files, mainpc, req, variant, asked, conns, now, disk, fileCache, writer, sweeper, crashed, url,
                   info, resp>>

\* Where the "if exists" block goes after its os.Stat. server3 re-stores the
\* entry when the modification time is unchanged; server4b then serves the
\* file at once when the cached entry is no directory; otherwise both fall
\* through to the second os.Stat.
AfterRestat(st, cached) ==
    IF ~st.err /\ st.ModTime = cached.ModTime
    THEN (IF variant = "server3" THEN "lock1"
          ELSE IF ~cached.IsDir THEN "serve" ELSE "stat")
    ELSE "stat"

\* The os.Stat inside "if exists".
Restat(p) ==
    LET st == Stat(fsPath(p))
        step == AfterRestat(st, cachedInfo[p])
    IN  /\ Alive
        /\ pc[p] = "restat"
        /\ info' = [info EXCEPT ![p] = IF st.err THEN NoInfo ELSE st]
        /\ pc' = [pc EXCEPT ![p] = step]
        /\ obs' = [obs EXCEPT ![p].statted = TRUE, ![p].chose = Chosen(step),
                              ![p].fails = IF st.err THEN @ + 1 ELSE @]
        /\ UNCHANGED <<checked, file, files, mainpc, req, variant, asked, conns, now, disk, fileCache, writer, readers, sweeper,
                       crashed, url, cachedInfo, resp>>

\* sync.RWMutex.Lock and sync.Mutex.Lock: p waits at step from until nobody
\* holds the lock, takes it and goes on to step to.
Acquire(p, from, to) ==
    /\ Alive
    /\ pc[p] = from
    /\ writer = NoHolder
    /\ readers = {}
    /\ writer' = p
    /\ pc' = [pc EXCEPT ![p] = to]
    /\ obs' = [obs EXCEPT ![p].touched = TRUE]
    /\ UNCHANGED <<checked, file, files, mainpc, req, variant, asked, conns, now, disk, fileCache, readers, sweeper, crashed, url,
                   cachedInfo, info, resp>>

\* server3, inside "if exists": cacheMutex.Lock()
Lock1(p) == Acquire(p, "lock1", "store1")

\* server3, inside "if exists": the entry is stored again from the fresh
\* stat, the lock released, and the file served when cachedInfo says the
\* path is no directory; a cached directory falls through to the second stat.
Store1(p) ==
    LET step == IF ~cachedInfo[p].IsDir THEN "serve" ELSE "stat"
    IN  /\ Alive
        /\ pc[p] = "store1"
        /\ fileCache' = [fileCache EXCEPT ![fsPath(p)] = MakeEntry(info[p], now)]
        /\ writer' = NoHolder
        /\ pc' = [pc EXCEPT ![p] = step]
        /\ obs' = [obs EXCEPT ![p].chose = Chosen(step), ![p].wrote = "store"]
        /\ UNCHANGED <<checked, file, files, mainpc, req, variant, asked, conns, now, disk, readers, sweeper, crashed, url,
                       cachedInfo, info, resp>>

\* The step after a successful os.Stat: the store into the cache.
AfterStat ==
    CASE variant = "server" -> "store0"
      [] variant = "server4" -> "putlock"
      [] OTHER -> "lock"

\* info, err := os.Stat(fsPath); an error is answered 404.
StatPath(p) ==
    LET st == Stat(fsPath(p))
    IN  /\ Alive
        /\ pc[p] = "stat"
        /\ obs' = [obs EXCEPT ![p].statted = TRUE,
                              ![p].fails = IF st.err THEN @ + 1 ELSE @]
        /\ IF st.err
           THEN /\ resp' = [resp EXCEPT ![p] = NotFound]
                /\ pc' = [pc EXCEPT ![p] = "done"]
                /\ info' = info
           ELSE /\ info' = [info EXCEPT ![p] = st]
                /\ pc' = [pc EXCEPT ![p] = AfterStat]
                /\ resp' = resp
        /\ UNCHANGED <<checked, file, files, mainpc, req, variant, asked, conns, now, disk, fileCache, writer, readers, sweeper,
                       crashed, url, cachedInfo>>

\* "Update cache": cacheMutex.Lock()
Lock2(p) == Acquire(p, "lock", "store")

\* Store2 that returns without cacheMutex.Unlock().
Store2Holding(p) ==
    /\ Alive
    /\ pc[p] = "store"
    /\ fileCache' = [fileCache EXCEPT ![fsPath(p)] = MakeEntry(info[p], now)]
    /\ pc' = [pc EXCEPT ![p] = Branch(info[p].IsDir)]
    /\ obs' = [obs EXCEPT ![p].chose = Chosen(Branch(info[p].IsDir)), ![p].wrote = "store"]
    /\ UNCHANGED <<checked, file, files, mainpc, req, variant, asked, conns, now, disk, writer, readers, sweeper,
                   crashed, url, cachedInfo, info, resp>>

\* "Update cache": the entry is stored, the lock released, and the handler
\* branches on info.IsDir().
Store2(p) ==
    /\ Alive
    /\ pc[p] = "store"
    /\ fileCache' = [fileCache EXCEPT ![fsPath(p)] = MakeEntry(info[p], now)]
    /\ writer' = NoHolder
    /\ pc' = [pc EXCEPT ![p] = Branch(info[p].IsDir)]
    /\ obs' = [obs EXCEPT ![p].chose = Chosen(Branch(info[p].IsDir)), ![p].wrote = "store"]
    /\ UNCHANGED <<checked, file, files, mainpc, req, variant, asked, conns, now, disk, readers, sweeper, crashed, url,
                   cachedInfo, info, resp>>

\* Whether another goroutine is at an access to the unlocked map that
\* conflicts with the one p is at: two accesses, one of them a write.
Races(p) ==
    /\ variant = "server"
    /\ pc[p] \in {"lookup0", "store0"}
    /\ \E q \in Procs \ {p} :
           /\ pc[q] \in {"lookup0", "store0"}
           /\ "store0" \in {pc[p], pc[q]}

\* server, "Check cache first": the map is read without a lock. A cached
\* entry that is no directory is served without a stat.
UnlockedLookup(p) ==
    LET e == fileCache[fsPath(p)]
        step == IF e # NoEntry /\ ~e.IsDir THEN "serve" ELSE "stat"
    IN  /\ Alive
        /\ pc[p] = "lookup0"
        /\ cachedInfo' = [cachedInfo EXCEPT ![p] = Cached(e)]
        /\ pc' = [pc EXCEPT ![p] = step]
        /\ obs' = [obs EXCEPT ![p].touched = TRUE, ![p].hit = e # NoEntry,
                              ![p].chose = Chosen(step)]
        /\ UNCHANGED <<checked, file, files, mainpc, req, variant, asked, conns, now, disk, fileCache, writer, readers, sweeper,
                       crashed, url, info, resp>>

\* server, "Update cache": the map is written without a lock.
UnlockedStore(p) ==
    /\ Alive
    /\ pc[p] = "store0"
    /\ fileCache' = [fileCache EXCEPT ![fsPath(p)] = MakeEntry(info[p], now)]
    /\ pc' = [pc EXCEPT ![p] = Branch(info[p].IsDir)]
    /\ obs' = [obs EXCEPT ![p].touched = TRUE, ![p].wrote = "store",
                          ![p].chose = Chosen(Branch(info[p].IsDir))]
    /\ UNCHANGED <<checked, file, files, mainpc, req, variant, asked, conns, now, disk, writer, readers, sweeper, crashed, url,
                   cachedInfo, info, resp>>

\* server: two unsynchronised accesses to the map overlap and the runtime
\* stops the process ("fatal error: concurrent map read and map write",
\* "concurrent map writes"). The other outcome of the race is that both
\* accesses go through, which UnlockedLookup and UnlockedStore are.
MapFault(p) ==
    /\ Alive
    /\ Races(p)
    /\ crashed' = TRUE
    /\ UNCHANGED <<checked, file, files, mainpc, req, variant, asked, conns, now, disk, fileCache, writer, readers, sweeper, pc,
                   url, cachedInfo, info, resp, obs>>

\* getFromCache: cacheMu.Lock()
GetLock(p) == Acquire(p, "getlock", "get")

\* getFromCache: a fresh entry has its lastAccess set to now and its info
\* returned, which fileHandler branches on without a stat; an entry that is
\* not fresh is deleted. The deferred Unlock ends the step.
GetFromCache(p) ==
    LET e == fileCache[fsPath(p)]
        hit == e # NoEntry /\ Fresh(e)
        step == IF hit THEN Branch(e.info.IsDir) ELSE "stat"
    IN  /\ Alive
        /\ pc[p] = "get"
        /\ fileCache' = [fileCache EXCEPT ![fsPath(p)] =
                             IF hit THEN [e EXCEPT !.lastAccess = now] ELSE NoEntry]
        /\ info' = [info EXCEPT ![p] = IF hit THEN e.info ELSE NoInfo]
        /\ writer' = NoHolder
        /\ pc' = [pc EXCEPT ![p] = step]
        /\ obs' = [obs EXCEPT ![p].hit = hit, ![p].chose = Chosen(step),
                              ![p].wrote = IF hit THEN "refresh"
                                           ELSE IF e # NoEntry THEN "delete" ELSE @]
        /\ UNCHANGED <<checked, file, files, mainpc, req, variant, asked, conns, now, disk, readers, sweeper, crashed, url,
                       cachedInfo, resp>>

\* putInCache: cacheMu.Lock()
PutLock(p) == Acquire(p, "putlock", "put")

\* putInCache: the entry is stored; the deferred Unlock ends the step and
\* fileHandler branches on info.IsDir().
PutInCache(p) ==
    /\ Alive
    /\ pc[p] = "put"
    /\ fileCache' = [fileCache EXCEPT ![fsPath(p)] = MakeEntry(info[p], now)]
    /\ writer' = NoHolder
    /\ pc' = [pc EXCEPT ![p] = Branch(info[p].IsDir)]
    /\ obs' = [obs EXCEPT ![p].chose = Chosen(Branch(info[p].IsDir)), ![p].wrote = "store"]
    /\ UNCHANGED <<checked, file, files, mainpc, req, variant, asked, conns, now, disk, readers, sweeper, crashed, url,
                   cachedInfo, info, resp>>

\* The File Responder: serveFile (server3), the inline copies of it (server,
\* server4b) and fileHandler's http.ServeFile. The file is opened and its
\* size taken (f.Stat) in this step. Where the Content-Type is neither set
\* by the handler nor known by the extension (fileHandler, a name without a
\* known extension), serveContent reads the head of the open file in a
\* later step; every other answer is written here.
ServeFile(p) ==
    LET r == HttpServeFile(url[p], fsPath(p), PresetContentType(fsPath(p)))
    IN  /\ Alive
        /\ pc[p] = "serve"
        /\ IF r.kind = "file" /\ r.ctype.type = "detected"
           THEN /\ file' = [file EXCEPT ![p] = [size |-> r.size,
                                                content |-> r.ctype.content,
                                                linked |-> TRUE]]
                /\ pc' = [pc EXCEPT ![p] = "sniff"]
                /\ resp' = resp
           ELSE /\ resp' = [resp EXCEPT ![p] = r]
                /\ pc' = [pc EXCEPT ![p] = "done"]
                /\ file' = file
        /\ UNCHANGED <<checked, files, mainpc, req, variant, asked, conns, now, disk, fileCache, writer,
                       readers, sweeper, crashed, url, cachedInfo, info, obs>>

\* serveContent of http.ServeFile: the Content-Type is detected from the
\* first 512 bytes read from the open file, as they are now; the size is the
\* one f.Stat gave when the file was opened. The file is closed on return.
DetectContentType(p) ==
    /\ Alive
    /\ pc[p] = "sniff"
    /\ resp' = [resp EXCEPT ![p] =
                   [status |-> 200, kind |-> "file", size |-> file[p].size,
                    ctype |-> [type |-> "detected", content |-> file[p].content]]]
    /\ file' = [file EXCEPT ![p] = Closed]
    /\ pc' = [pc EXCEPT ![p] = "done"]
    /\ UNCHANGED <<checked, files, mainpc, req, variant, asked, conns, now, disk, fileCache, writer,
                   readers, sweeper, crashed, url, cachedInfo, info, obs>>

\* The Directory Renderer: os.ReadDir and the sort. A failed os.ReadDir is
\* answered at once. The loops that use only the names and the types
\* os.ReadDir gave write the page in this step.
ListDirectory(p) ==
    LET rd == ReadDir(fsPath(p))
    IN  /\ Alive
        /\ pc[p] = "readdir"
        /\ IF rd.err
           THEN /\ resp' = [resp EXCEPT ![p] = ReadDirError]
                /\ pc' = [pc EXCEPT ![p] = "done"]
                /\ files' = files
           ELSE IF ReadsInfo
           THEN /\ files' = [files EXCEPT ![p] = Sorted(rd.files)]
                /\ pc' = [pc EXCEPT ![p] = "info"]
                /\ resp' = resp
           ELSE /\ resp' = [resp EXCEPT ![p] =
                               Listing(reqPath(p), fsPath(p), Sorted(rd.files))]
                /\ pc' = [pc EXCEPT ![p] = "done"]
                /\ files' = files
        /\ UNCHANGED <<checked, file, mainpc, req, variant, asked, conns, now, disk, fileCache, writer, readers,
                       sweeper, crashed, url, cachedInfo, info, obs>>

\* The listing loop of handleBrowse (server3) and dirList: f.Info() of each
\* entry shown, made after os.ReadDir has returned. One path of the disk
\* changes, so one f.Info() of the loop can differ from what os.ReadDir saw.
ListEntries(p) ==
    /\ Alive
    /\ pc[p] = "info"
    /\ resp' = [resp EXCEPT ![p] = Listing(reqPath(p), fsPath(p), files[p])]
    /\ pc' = [pc EXCEPT ![p] = "done"]
    /\ UNCHANGED <<checked, file, files, mainpc, req, variant, asked, conns, now, disk, fileCache, writer, readers,
                   sweeper, crashed, url, cachedInfo, info, obs>>

\* The handler returns; the goroutine is free for the next request.
Finish(p) ==
    /\ Alive
    /\ pc[p] = "done"
    /\ pc' = [pc EXCEPT ![p] = "idle"]
    /\ url' = [url EXCEPT ![p] = NoUrl]
    /\ cachedInfo' = [cachedInfo EXCEPT ![p] = NoEntry]
    /\ info' = [info EXCEPT ![p] = NoInfo]
    /\ files' = [files EXCEPT ![p] = NoFiles]
    /\ file' = [file EXCEPT ![p] = Closed]
    /\ resp' = [resp EXCEPT ![p] = NoResp]
    /\ req' = [req EXCEPT ![p] = NoReq]
    /\ obs' = [obs EXCEPT ![p] = NoObs]
    /\ UNCHANGED <<checked, mainpc, variant, asked, conns, now, disk, fileCache, writer, readers, sweeper, crashed>>

(***************************************************************************)
(* The echo endpoint                                                       *)
(***************************************************************************)
MethodNotAllowed == [status |-> 405, kind |-> "error"]
StatusKey == <<"s", "t", "a", "t", "u", "s">>
ReceivedKey == <<"r", "e", "c", "e", "i", "v", "e", "d">>
TimeKey == <<"t", "i", "m", "e">>
Success == <<"s", "u", "c", "c", "e", "s", "s">>
Member(key, val) == [key |-> key, val |-> val]

\* json.NewEncoder(w).Encode(JsonResponse{Status: "success", Received: v})
JsonResponse(v) ==
    [status |-> 200, kind |-> "json",
     body |-> JsonObject(<<Member(StatusKey, JsonString(Success)),
                           Member(ReceivedKey, v)>>)]

\* What the echo handler answers to a request with the method and the body:
\* apiHandler refuses every method but POST, caps the body, decodes it into
\* a map and answers the map and the time; the handlePost of server3 caps
\* the body, decodes it into its struct and refuses an empty Data; that of
\* server4b caps the body and decodes any value; that of server decodes a
\* map without a cap.
EchoResponse(method, body) ==
    CASE variant = "server4" ->
           LET v == ReadValue(body, TRUE)
           IN  IF method # "POST" THEN MethodNotAllowed
               ELSE IF ~v.ok \/ DecodeMap(v.val).err THEN BadRequest
               ELSE [status |-> 200, kind |-> "json",
                     body |-> JsonObject(<<Member(ReceivedKey, DecodeMap(v.val).val),
                                           Member(TimeKey, [k |-> "time", t |-> now])>>)]
      [] variant = "server3" ->
           LET v == ReadValue(body, TRUE)
           IN  IF ~v.ok \/ DecodeData(v.val).err \/ DecodeData(v.val).Data = <<>>
               THEN BadRequest
               ELSE JsonResponse(JsonObject(<<Member(DataKey,
                                                     JsonString(DecodeData(v.val).Data))>>))
      [] variant = "server4b" ->
           LET v == ReadValue(body, TRUE)
           IN  IF ~v.ok THEN BadRequest ELSE JsonResponse(Generic(v.val))
      [] OTHER ->
           LET v == ReadValue(body, FALSE)
           IN  IF ~v.ok \/ DecodeMap(v.val).err THEN BadRequest
               ELSE JsonResponse(DecodeMap(v.val).val)

\* A request to the echo endpoint: the handler reads the body and answers.
Echo(p) ==
    \E method \in Methods, body \in Bodies :
        /\ Alive
        /\ mainpc = "serve"
        /\ pc[p] = "idle"
        /\ p <= conns
        /\ \A q \in 1..(p - 1) : pc[q] # "idle"
        /\ EchoPath \in asked
        /\ Route(EchoPath) = "echo"
        /\ url' = [url EXCEPT ![p] = EchoPath]
        /\ req' = [req EXCEPT ![p] = [Method |-> method, Body |-> body]]
        /\ resp' = [resp EXCEPT ![p] = EchoResponse(method, body)]
        /\ pc' = [pc EXCEPT ![p] = "done"]
        /\ UNCHANGED <<checked, file, files, mainpc, variant, asked, conns, now, disk, fileCache, writer, readers, sweeper,
                       crashed, cachedInfo, info, obs>>

(***************************************************************************)
(* The sweep goroutine                                                     *)
(***************************************************************************)
\* The ticker fires and cleanCache takes the lock.
SweepLock ==
    /\ Alive
    /\ HasSweep
    /\ sweeper = "wait"
    /\ writer = NoHolder
    /\ readers = {}
    /\ writer' = Sweeper
    /\ sweeper' = "clean"
    /\ UNCHANGED <<checked, file, files, mainpc, req, variant, asked, conns, now, disk, fileCache, readers, crashed, pc, url,
                   cachedInfo, info, resp, obs>>

\* cleanCache's loop deletes every expired entry, then the lock is released.
SweepClean ==
    /\ Alive
    /\ sweeper = "clean"
    /\ fileCache' = [path \in AllPaths |->
                         IF fileCache[path] # NoEntry /\ Expired(fileCache[path])
                         THEN NoEntry ELSE fileCache[path]]
    /\ writer' = NoHolder
    /\ sweeper' = "wait"
    /\ UNCHANGED <<checked, file, files, mainpc, req, variant, asked, conns, now, disk, readers, crashed, pc, url, cachedInfo,
                   info, resp, obs>>

(***************************************************************************)
(* main: the shutdown                                                      *)
(***************************************************************************)
\* This run's inputs.
Scenario == CHOOSE sc \in Scenarios : sc.urls = asked /\ sc.conns = conns

\* Whether the operator sends the interrupt in this run.
WillQuit == Scenario.quit

\* main receives the signal (<-quit, <-stop): fileHandler's program closes
\* the stop channel; server.Shutdown or server.Close closes the listener,
\* so no further request arrives.
Signal ==
    /\ Alive
    /\ WillQuit
    /\ mainpc = "serve"
    /\ mainpc' = "shutdown"
    /\ UNCHANGED <<checked, file, files, variant, asked, conns, now, disk, fileCache, writer, readers, sweeper,
                   crashed, pc, url, cachedInfo, info, resp, req, obs>>

\* cleanCache of go-server4.go: the select takes "case <-stop" and the
\* goroutine returns. The sweep of go-server3.go has no such case.
SweepStop ==
    /\ Alive
    /\ variant = "server4"
    /\ mainpc = "shutdown"
    /\ sweeper = "wait"
    /\ sweeper' = "stopped"
    /\ UNCHANGED <<checked, file, files, variant, asked, conns, now, disk, fileCache, writer, readers, crashed,
                   mainpc, pc, url, cachedInfo, info, resp, req, obs>>

\* server.Shutdown returns, when the handlers are done or its context has
\* timed out (log.Fatalf), or server.Close returns; main returns and the
\* process ends with every goroutine where it is.
Exit ==
    /\ Alive
    /\ mainpc = "shutdown"
    /\ mainpc' = "exited"
    /\ UNCHANGED <<checked, file, files, variant, asked, conns, now, disk, fileCache, writer, readers, sweeper,
                   crashed, pc, url, cachedInfo, info, resp, req, obs>>

(***************************************************************************)
(* The environment                                                         *)
(***************************************************************************)
\* Time passes; only the programs with a TTL look at it.
Tick ==
    /\ Alive
    /\ HasSweep
    /\ now < Scenario.ticks
    /\ now' = now + 1
    /\ UNCHANGED <<checked, file, files, mainpc, req, variant, asked, conns, disk, fileCache, writer, readers, sweeper, crashed,
                   pc, url, cachedInfo, info, resp, obs>>

\* Something outside the server creates, removes, rewrites or replaces a
\* file or directory, at any moment; every request in flight has seen the
\* disk move. A file is rewritten either in place, and then a request that
\* holds it open reads the new content, or by a new file put under its name,
\* and then the open file keeps the old content; a removed or replaced file
\* stays as it was for the request that holds it open, whatever happens
\* under its name afterwards.
FsChange ==
    \E path \in MutablePaths, n \in Scenario.nodes, inPlace \in BOOLEAN :
        /\ Alive
        /\ n # disk[path]
        /\ inPlace => disk[path].kind = "file" /\ n.kind = "file"
        /\ disk' = [disk EXCEPT ![path] = n]
        /\ file' = [p \in Procs |->
                       IF pc[p] = "sniff" /\ fsPath(p) = path /\ file[p].linked
                       THEN IF inPlace THEN [file[p] EXCEPT !.content = n.size]
                            ELSE [file[p] EXCEPT !.linked = FALSE]
                       ELSE file[p]]
        /\ obs' = [p \in Procs |->
                      IF pc[p] = "idle" THEN obs[p] ELSE [obs[p] EXCEPT !.moved = TRUE]]
        /\ UNCHANGED <<checked, files, mainpc, req, variant, asked, conns, now, fileCache, writer, readers,
                       sweeper, crashed, pc, url, cachedInfo, info, resp>>

Next ==
    \/ \E p \in Procs : ServeMux(p)
    \/ \E p \in Procs : Request(p)
    \/ \E p \in Procs : RLock(p)
    \/ \E p \in Procs : Lookup(p)
    \/ \E p \in Procs : Restat(p)
    \/ \E p \in Procs : Lock1(p)
    \/ \E p \in Procs : Store1(p)
    \/ \E p \in Procs : StatPath(p)
    \/ \E p \in Procs : Lock2(p)
    \/ \E p \in Procs : Store2(p)
    \/ \E p \in Procs : UnlockedLookup(p)
    \/ \E p \in Procs : UnlockedStore(p)
    \/ \E p \in Procs : MapFault(p)
    \/ \E p \in Procs : GetLock(p)
    \/ \E p \in Procs : GetFromCache(p)
    \/ \E p \in Procs : PutLock(p)
    \/ \E p \in Procs : PutInCache(p)
    \/ \E p \in Procs : ServeFile(p)
    \/ \E p \in Procs : DetectContentType(p)
    \/ \E p \in Procs : ListDirectory(p)
    \/ \E p \in Procs : ListEntries(p)
    \/ \E p \in Procs : Finish(p)
    \/ \E p \in Procs : Echo(p)
    \/ Signal
    \/ SweepStop
    \/ Exit
    \/ SweepLock
    \/ SweepClean
    \/ Tick
    \/ FsChange

Spec == Init /\ [][Next]_vars

(***************************************************************************)
(* The Path Resolver check as a function of the joined path                *)
(***************************************************************************)
\* The characters and the greatest length of the paths the check is applied
\* to.
PathChars == {"/", "b", "x"}
MaxPathLen == 5

\* What filepath.Join can return for an absolute base: every rooted path
\* that is its own filepath.Clean.
AbsPaths ==
    {s \in UNION {[1..n -> PathChars] : n \in 1..MaxPathLen} :
         s[1] = Separator /\ Clean(s) = s}

\* No request is in flight and nothing is cached.
ResolverInit ==
    /\ variant \in Variants
    /\ asked = {}
    /\ conns = 0
    /\ disk = [path \in MutablePaths |-> NoFile]
    /\ now = 0
    /\ fileCache = [path \in AllPaths |-> NoEntry]
    /\ writer = NoHolder
    /\ readers = {}
    /\ sweeper = "wait"
    /\ crashed = FALSE
    /\ mainpc = "serve"
    /\ pc = [p \in Procs |-> "idle"]
    /\ url = [p \in Procs |-> NoUrl]
    /\ cachedInfo = [p \in Procs |-> NoEntry]
    /\ info = [p \in Procs |-> NoInfo]
    /\ files = [p \in Procs |-> NoFiles]
    /\ file = [p \in Procs |-> Closed]
    /\ resp = [p \in Procs |-> NoResp]
    /\ req = [p \in Procs |-> NoReq]
    /\ obs = [p \in Procs |-> NoObs]
    /\ checked = NoCheck

\* The traversal check of the running program applied to the joined path:
\* the test of the if statement that answers 404.
CheckPath(path) ==
    /\ checked' = [path |-> path, allowed |-> PathAllowed(path)]
    /\ UNCHANGED <<variant, asked, conns, now, disk, fileCache, writer, readers, sweeper,
                   crashed, mainpc, pc, url, cachedInfo, info, files, file, resp, req, obs>>

ResolverNext == \E path \in AbsPaths : CheckPath(path)

ResolverSpec == ResolverInit /\ [][ResolverNext]_vars

\* The steps at which a goroutine waits for the lock.
Waits == {"rlock", "lock1", "lock", "getlock", "putlock"}
Take(p) == RLock(p) \/ Lock1(p) \/ Lock2(p) \/ GetLock(p) \/ PutLock(p)

\* The scheduler runs the goroutine of p, which is in a request and not
\* waiting for the lock: the handler takes its next step.
Runs(p) ==
    /\ Alive
    /\ pc[p] \notin Waits \cup {"idle"}
    /\ \E step \in {"lookup", "restat", "lock1", "store1", "stat", "lock", "store",
                     "store0", "putlock", "put", "serve", "sniff", "readdir", "info", "done",
                     "idle"} \ {pc[p]} :
           pc' = [pc EXCEPT ![p] = step]

\* The Go scheduler runs every runnable goroutine; sync.Mutex (starvation
\* mode) and sync.RWMutex (a waiting writer blocks new readers, a released
\* writer wakes the waiting readers) let no waiter starve; the sweep and
\* main, once they can go on, do.
FairSpec ==
    /\ Spec
    /\ WF_vars(SweepClean)
    /\ WF_vars(Exit)
    /\ \A p \in Procs : WF_pc(Runs(p)) /\ SF_vars(Take(p))

(***************************************************************************)
(* Properties                                                              *)
(***************************************************************************)
\* p serves a request that the mux handed to the browse handler.
Browsed(p) == pc[p] # "idle" /\ Route(url[p]) = "browse"
\* The request of p got past the traversal check.
Passed(p) == Browsed(p) /\ PathAllowed(fsPath(p))
\* What serving the file at p's path as it is on disk now gives.
ServedNow(p) == HttpServeFile(url[p], fsPath(p), PresetContentType(fsPath(p)))

\* Every path the browse handler resolves is the served directory or lies
\* below it: the mux hands it rooted, clean paths only.
ResolvesUnderRoot ==
    \A p \in Procs : Browsed(p) => UnderRoot(fsPath(p))

\* A request whose target resolves to the sibling directory has been
\* answered by net/http; no handler has run for it.
SiblingRefused ==
    \E p \in Procs :
        /\ pc[p] = "done"
        /\ fsPath(p) = PathSibling
        /\ ~Browsed(p)
        /\ resp[p] = BadRequest

\* C2: every absolute path the traversal check lets through is the served
\* directory itself or the served directory followed by a separator and
\* more; a sibling whose name only has the directory's name as a string
\* prefix is rejected.
CheckAdmitsOnlyUnderRoot ==
    checked.allowed => UnderRoot(checked.path)

\* C3: every request that got past the traversal check has done an
\* os.Stat of its path before it chooses the File Responder or the Directory
\* Renderer, whatever the cache holds.
AlwaysStat ==
    \A p \in Procs :
        (Passed(p) /\ obs[p].chose # "none") => obs[p].statted

\* C4: the File Responder or the Directory Renderer is chosen from the IsDir
\* of an os.Stat done in the same request, never from the cached flag.
ChoiceFromOwnStat ==
    \A p \in Procs :
        (Passed(p) /\ obs[p].chose # "none")
            => /\ obs[p].statted
               /\ info[p] # NoInfo
               /\ obs[p].chose = Chosen(Branch(info[p].IsDir))

\* C5: a finished request for a path that holds a regular file, with no
\* change on disk while it ran, has answered 200 with the size and the
\* content type of the file as it is now; so two such requests with nothing
\* changed between them agree, and one after a rewrite has the new values,
\* whatever the cache held.
FileAnswerIsCurrent ==
    \A p \in Procs :
        (/\ pc[p] = "done"
         /\ Passed(p)
         /\ UnderRoot(fsPath(p))
         /\ ~obs[p].moved
         /\ Node(fsPath(p)).kind = "file")
            => /\ resp[p].status = 200
               /\ resp[p].kind = "file"
               /\ resp[p].size = Node(fsPath(p)).size
               /\ resp[p].ctype = ServedNow(p).ctype

\* C6: when the sweep has run, no entry is left whose LastAccess is more
\* than cacheTTL back; and an entry that was accessed within the last
\* cacheTTL, as one requested in every TTL interval always is, is removed
\* by no step, neither the sweep's nor a lookup's.
SweepRemovesOnlyIdle ==
    [][/\ (sweeper = "clean" /\ sweeper' = "wait")
            => \A path \in AllPaths :
                   fileCache'[path] # NoEntry
                       => now - EntryLastAccess(fileCache'[path]) <= cacheTTL
       /\ \A path \in AllPaths :
              (/\ HasSweep
               /\ fileCache[path] # NoEntry
               /\ now - EntryLastAccess(fileCache[path]) <= cacheTTL)
                  => fileCache'[path] # NoEntry]_vars

\* Every goroutine has a request for the same existing path in its hands,
\* each arrived while the path was not cached, and the disk has not changed
\* since.
Burst ==
    /\ conns > 1
    /\ \A p \in Procs :
           /\ Passed(p)
           /\ url[p] = url[1]
           /\ obs[p].cold
           /\ ~obs[p].moved
    /\ ~Stat(fsPath(1)).err

\* C7: requests for the same uncached path that run at once, next to the
\* sweep, all succeed with the metadata of the path on disk, and when all
\* have finished the cache holds the entry for the path, with the
\* modification time and the IsDir of the disk.
BurstConsistent ==
    Burst =>
        /\ Alive
        /\ (\A p \in Procs : pc[p] = "done") =>
               /\ \A p \in Procs :
                      /\ resp[p].status = 200
                      /\ resp[p] = resp[1]
                      /\ info[p] # NoInfo =>
                             /\ info[p].ModTime = Stat(fsPath(1)).ModTime
                             /\ info[p].IsDir = Stat(fsPath(1)).IsDir
               /\ fileCache[fsPath(1)] # NoEntry
               /\ EntryModTime(fileCache[fsPath(1)]) = Stat(fsPath(1)).ModTime
               /\ EntryIsDir(fileCache[fsPath(1)]) = Stat(fsPath(1)).IsDir

\* The steps at which a handler reads the map, and those at which it writes.
AtRead(p) == pc[p] \in {"lookup", "lookup0"}
AtWrite(p) == pc[p] \in {"store1", "store", "store0", "get", "put"}

\* C8: every read of the map is done with the lock held shared or
\* exclusively and every write with it held exclusively, in the handlers and
\* in the sweep; so no write overlaps another access.
LockDiscipline ==
    /\ \A p \in Procs : AtRead(p) => (p \in readers \/ writer = p)
    /\ \A p \in Procs : AtWrite(p) => writer = p
    /\ sweeper = "clean" => writer = Sweeper
    /\ \A p \in Procs :
           AtWrite(p) => /\ sweeper # "clean"
                         /\ \A q \in Procs \ {p} : ~AtRead(q) /\ ~AtWrite(q)

\* C9: a finished request for a path that got past the traversal check and
\* is missing from the disk, and was for the whole request, has answered
\* 404, whatever the cache held.
MissingIs404 ==
    \A p \in Procs :
        (/\ pc[p] = "done"
         /\ Passed(p)
         /\ ~obs[p].moved
         /\ Node(fsPath(p)).kind = "none")
            => resp[p] = NotFound

\* The name begins with ".".
Dotted(name) == HasPrefix(name, Dot)

\* C10: no listing shows an entry whose name begins with ".", and a finished
\* request for the path of such an entry, a file under the served directory,
\* has answered 200 with the file.
DottedHiddenButServed ==
    \A p \in Procs :
        pc[p] = "done" =>
            /\ resp[p].kind = "listing" =>
                   \A i \in 1..Len(resp[p].entries) : ~Dotted(resp[p].entries[i].text)
            /\ resp[p].kind = "httpdir" =>
                   \A i \in 1..Len(resp[p].names) : ~Dotted(resp[p].names[i])
            /\ (/\ Browsed(p)
                /\ UnderRoot(fsPath(p))
                /\ Dotted(Base(fsPath(p)))
                /\ ~obs[p].moved
                /\ Node(fsPath(p)).kind = "file")
                   => resp[p].status = 200 /\ resp[p].kind = "file"

\* Whether a line of a listing is a directory's (its link ends with the
\* separator), and the name it shows.
LineIsDir(line) == HasSuffix(line.href, <<Separator>>)
LineName(line) ==
    IF HasSuffix(line.text, <<Separator>>)
    THEN SubSeq(line.text, 1, Len(line.text) - 1) ELSE line.text

\* C11: in every listing written, all directories come before all files,
\* and within each group the names ascend in byte order.
ListingDirsFirstByName ==
    \A p \in Procs :
        (pc[p] = "done" /\ resp[p].kind = "listing") =>
            \A i, j \in 1..Len(resp[p].entries) :
                i < j =>
                    LET a == resp[p].entries[i]
                        b == resp[p].entries[j]
                    IN  /\ LineIsDir(a) \/ ~LineIsDir(b)
                        /\ LineIsDir(a) = LineIsDir(b)
                               => StringLess(LineName(a), LineName(b))

\* The listing of the directory at p's path as it is on disk now.
ListingNow(p) == Listing(reqPath(p), fsPath(p), Sorted(ReadDir(fsPath(p)).files))

\* C12: a finished request for a path that holds a directory, with no change
\* on disk while it ran, has written the listing of the directory as it is,
\* whatever the cache held; so two such requests with nothing changed
\* between them write the same listing.
ListingIsOfDisk ==
    \A p \in Procs :
        (/\ pc[p] = "done"
         /\ Passed(p)
         /\ ~obs[p].moved
         /\ Node(fsPath(p)).kind = "dir")
            => /\ resp[p].kind = "listing"
               /\ resp[p] = ListingNow(p)

\* The request of p did an os.Stat that found a directory, chose the
\* Directory Renderer and the read of the directory failed.
ReadDirFailed(p) ==
    /\ pc[p] = "done"
    /\ obs[p].statted
    /\ info[p] # NoInfo
    /\ info[p].IsDir
    /\ obs[p].chose = "dir"
    /\ resp[p].kind = "error"

\* C13 as stated: a failed read of a directory that was statted
\* successfully is answered 500.
ReadDirFailureIs500 ==
    \A p \in Procs : ReadDirFailed(p) => resp[p].status = 500

\* C13 amended: a failed read of a directory that was statted successfully
\* is answered 500 by the handleBrowse handlers and 403 by dirList: never
\* 404, and the same status on every such failure of one program.
ReadDirFailureIsNot404 ==
    \A p \in Procs :
        ReadDirFailed(p) =>
            /\ resp[p].status # 404
            /\ resp[p].status = IF variant = "server4" THEN 403 ELSE 500

\* A request statted a directory and then failed to read it.
SomeReadDirFailed == \E p \in Procs : ReadDirFailed(p)

\* A request to the echo endpoint that has been answered.
Echoed(p) == pc[p] = "done" /\ req[p] # NoReq
\* The value under key in a JSON object, if there is one.
Absent == [k |-> "absent"]
Field(v, key) ==
    IF v.k = "object" /\ \E i \in 1..Len(v.members) : v.members[i].key = key
    THEN v.members[CHOOSE i \in 1..Len(v.members) : v.members[i].key = key].val
    ELSE Absent
\* The response is the success response: 200 with status "success".
IsSuccess(r) ==
    /\ r.status = 200
    /\ r.kind = "json"
    /\ Field(r.body, StatusKey) = JsonString(Success)
\* The body is one JSON value and nothing else.
WellFormed(body) == ParseValue(body).ok /\ ParseValue(body).rest = <<>>
\* The payload is empty: no body, null, or an object or array of nothing.
EmptyPayload(body) ==
    \/ body = <<>>
    \/ /\ WellFormed(body)
       /\ ParseValue(body).val \in {JsonNull, JsonObject(<<>>), JsonArray(<<>>)}

\* C14: a POST to the echo endpoint with a well-formed, non-empty JSON body
\* within the size cap is answered 200 with a JSON body that has status
\* "success" and the decoded payload under "received".
PostIsEchoed ==
    \A p \in Procs :
        (/\ Echoed(p)
         /\ req[p].Method = "POST"
         /\ WellFormed(req[p].Body)
         /\ ~EmptyPayload(req[p].Body)
         /\ BodyBytes(req[p].Body) <= MaxBodyBytes)
            => /\ IsSuccess(resp[p])
               /\ Field(resp[p].body, ReceivedKey) = Generic(ParseValue(req[p].Body).val)

\* C15: a request to the echo endpoint with a method other than POST never
\* receives the success response, whatever its body.
OnlyPostSucceeds ==
    \A p \in Procs :
        (Echoed(p) /\ req[p].Method # "POST") => ~IsSuccess(resp[p])

\* C16: a POST to the echo endpoint whose body is malformed JSON, an empty
\* payload, or larger than 1 MiB is answered 400 and never with the success
\* response.
BadBodyIs400 ==
    \A p \in Procs :
        (/\ Echoed(p)
         /\ req[p].Method = "POST"
         /\ \/ ~WellFormed(req[p].Body)
            \/ EmptyPayload(req[p].Body)
            \/ BodyBytes(req[p].Body) > MaxBodyBytes)
            => resp[p] = BadRequest

\* The request is at a store into the cache, after a stat of its own.
AtStore(p) == pc[p] \in {"store1", "store", "store0", "put"}

\* C17: when a request stores the entry of its path after its stat, an
\* entry whose modification time equals the fresh one keeps its
\* modification time and its is_directory, an entry that differs or is
\* absent is replaced by the fresh modification time and is_directory, and
\* in both cases last_access, where the entry has one, becomes the current
\* time.
CacheUpdateFrame ==
    [][\A p \in Procs :
           LET path == fsPath(p)
               e == fileCache[path]
               e2 == fileCache'[path]
           IN  (pc'[p] # pc[p] /\ AtStore(p))
                   => /\ e2 # NoEntry
                      /\ IF e # NoEntry /\ EntryModTime(e) = info[p].ModTime
                         THEN /\ EntryModTime(e2) = EntryModTime(e)
                              /\ EntryIsDir(e2) = EntryIsDir(e)
                         ELSE /\ EntryModTime(e2) = info[p].ModTime
                              /\ EntryIsDir(e2) = info[p].IsDir
                      /\ HasSweep => EntryLastAccess(e2) = now]_vars

\* C18: once a stat of the request path has failed during a request, the
\* request performs no further stat of the path and ends with an error
\* response: at most one stat fails per request.
StatFailureIsTerminal ==
    \A p \in Procs :
        obs[p].fails > 0
            => /\ pc[p] = "done"
               /\ resp[p].status >= 400
               /\ obs[p].fails = 1

\* The request is at a call into the filesystem: os.Stat, os.ReadDir or
\* http.ServeFile.
AtFsCall(p) == pc[p] \in {"restat", "stat", "serve", "sniff", "readdir", "info"}

\* C19: no request handler holds the cache lock, shared or exclusive, while
\* it is at a filesystem call; the sweep, which holds the lock for its whole
\* step, makes no filesystem call.
NoLockAcrossFsCall ==
    \A p \in Procs : AtFsCall(p) => (writer # p /\ p \notin readers)

\* A request that has taken and released the lock is at a filesystem call
\* while the lock is held by someone else.
FsCallBesideLock ==
    \E p \in Procs :
        /\ variant # "server"
        /\ AtFsCall(p)
        /\ obs[p].touched
        /\ writer # NoHolder

\* C20: every value a request writes to the store is the result of a stat
\* made earlier in that request and is what the store holds after the write;
\* and a request that completes with the filesystem unchanged since it
\* arrived leaves an entry, if any, whose modification time and is_directory
\* are those of the path on disk.
WritesAreOwnStats ==
    [][\A p \in Procs :
           LET path == fsPath(p)
               e == fileCache[path]
               e2 == fileCache'[path]
           IN  /\ (pc'[p] # pc[p] /\ AtStore(p))
                   => /\ obs[p].statted
                      /\ e2 # NoEntry
                      /\ EntryModTime(e2) = info[p].ModTime
                      /\ EntryIsDir(e2) = info[p].IsDir
               /\ (/\ pc[p] = "done"
                   /\ pc'[p] = "idle"
                   /\ Passed(p)
                   /\ ~obs[p].moved
                   /\ ~Stat(path).err
                   /\ e # NoEntry)
                   => /\ EntryModTime(e) = Stat(path).ModTime
                      /\ EntryIsDir(e) = Stat(path).IsDir]_vars

\* The request has been answered with a listing of the Directory Renderer.
Listed(p) == pc[p] = "done" /\ Browsed(p) /\ resp[p].kind = "listing"

\* C23: a rendered directory listing has a link to the parent directory
\* exactly when the cleaned request path is not "/"; the listing of the root
\* has none.
ParentLinkUnlessRoot ==
    \A p \in Procs :
        Listed(p) => ((resp[p].parent # NoParent) <=> (reqPath(p) # <<Separator>>))

\* A listing of a directory below the root has been written, with its link
\* to the parent.
ListedBelowRoot ==
    \E p \in Procs :
        /\ Listed(p)
        /\ reqPath(p) # <<Separator>>
        /\ resp[p].parent # NoParent

\* The browse request of p has ended in the 404 of the traversal check or
\* of a failed os.Stat: no responder was chosen.
EndedInError(p) ==
    /\ pc[p] = "done"
    /\ Browsed(p)
    /\ resp[p] = NotFound
    /\ obs[p].chose = "none"

\* C24: a browse request that ends in the error of the
\* traversal check or of a failed stat has inserted, overwritten and deleted
\* no entry of the store.
ErrorLeavesCache ==
    \A p \in Procs : EndedInError(p) => obs[p].wrote = "none"

\* C25: the Path Resolver rejects only paths outside the root: a request
\* whose cleaned, joined path is the root or lies below it gets past the
\* traversal check, also when its first segment below the root merely
\* begins with two dots.
UnderRootIsAccepted ==
    \A p \in Procs :
        (Browsed(p) /\ UnderRoot(fsPath(p)))
            => /\ PathAllowed(fsPath(p))
               /\ ~(EndedInError(p) /\ ~obs[p].statted)

\* The sweep has ended: cleanCache has returned, or the process has.
SweepEnded == sweeper = "stopped" \/ mainpc = "exited"

\* C21: the sweep is a cancellable task: once the signal is given the
\* waiting sweep can take its stop branch; after the signal the sweep
\* eventually ends, and from then on it makes no step.
SweepIsCancellable ==
    /\ []((HasSweep /\ mainpc = "shutdown" /\ sweeper = "wait") => ENABLED SweepStop)
    /\ (HasSweep /\ mainpc # "serve") ~> SweepEnded
    /\ [][SweepEnded => sweeper' = sweeper]_vars

\* What the two programs with a sweep do: the sweep of server4 is
\* cancellable and that of server3 never returns; in both the sweep has
\* eventually ended after the signal, by cleanCache returning or by the
\* process ending, and from then on it makes no step.
SweepEndsAfterSignal ==
    /\ []((variant = "server4" /\ mainpc = "shutdown" /\ sweeper = "wait")
              => ENABLED SweepStop)
    /\ [](variant = "server3" => sweeper # "stopped")
    /\ (HasSweep /\ mainpc # "serve") ~> SweepEnded
    /\ [][SweepEnded => sweeper' = sweeper]_vars

\* cleanCache has returned on the stop channel while the process still
\* runs, and an entry older than the TTL stays in the store.
StoppedOverOldEntry ==
    /\ sweeper = "stopped"
    /\ mainpc = "shutdown"
    /\ \E path \in AllPaths : fileCache[path] # NoEntry /\ Expired(fileCache[path])

\* The lock is held only inside the critical sections.
HeldInside ==
    /\ \A p \in Procs : writer = p => pc[p] \in {"store1", "store", "get", "put"}
    /\ \A p \in readers : pc[p] = "lookup"
    /\ writer = Sweeper => sweeper = "clean"

\* C22: the lock is released on every exit path, so in the programs that
\* have the lock every request eventually completes, and so has had the
\* lock each time it waited for it, also while sweeps run, for as long as
\* the process runs.
LockNeverStarves ==
    /\ []HeldInside
    /\ \A p \in Procs :
           (variant # "server" /\ pc[p] # "idle") ~> (pc[p] = "done" \/ mainpc = "exited")

\* A request waits for the lock while the sweep holds it.
WaitsForSweep ==
    \E p \in Procs : pc[p] \in Waits /\ writer = Sweeper /\ sweeper = "clean"

====
